---- MODULE Spec2Model ----
(***************************************************************************)
(* A model of the RAML loader of go-raml/raml: ParseFile (parser.go), its  *)
(* inclusion preprocessor preProcess, the file reader readFileContents and *)
(* the YAML-to-RAML error translator (convertYAMLError).                   *)
(*                                                                         *)
(* Text is modelled byte by byte: a Go string or []byte is a sequence of   *)
(* one-character strings, and Go's 0-based half-open slices s[lo:hi] are   *)
(* the operator Slice.                                                     *)
(***************************************************************************)
EXTENDS Integers, Sequences, FiniteSets, TLC

\* ------------------------------------------------------------------ bytes

NL == "\n"
CR == "\r"
SP == " "

\* Go's s[lo:hi] on a string or byte slice (0-based, half-open).
Slice(s, lo, hi) == SubSeq(s, lo + 1, hi)

\* Go's s[lo:hi] bounds check: the slice expression panics when this fails.
SliceInRange(s, lo, hi) == 0 <= lo /\ lo <= hi /\ hi <= Len(s)

\* strings.HasPrefix
HasPrefix(s, p) == Len(s) >= Len(p) /\ SubSeq(s, 1, Len(p)) = p

\* strings.Index / bytes.IndexByte: the 0-based offset of the first occurrence
\* of sub in s, or -1.
Index(s, sub) ==
    LET hits == {i \in 0..(Len(s) - Len(sub)) : Slice(s, i, i + Len(sub)) = sub}
    IN  IF hits = {} THEN -1 ELSE CHOOSE i \in hits : \A j \in hits : i <= j

\* strings.Contains
Contains(s, sub) == Index(s, sub) # -1

\* strings.Repeat(" ", n)
Repeat(ch, n) == [i \in 1..n |-> ch]

\* ------------------------------------------------------------- bufio, bytes

\* A faulty dropCR: the carriage return stays on the line.
dropCRNever(data) == data

\* bufio.dropCR: drops one terminal carriage return of a scanned line.
dropCR(data) ==
    IF Len(data) > 0 /\ data[Len(data)] = CR
    THEN Slice(data, 0, Len(data) - 1)
    ELSE data

\* bufio.ScanLines on the whole remaining input (the readers here are in-memory
\* buffers, so the scanner always sees the data up to end of input): the bytes
\* consumed and the line returned, its terminator stripped.
ScanLines(data) ==
    LET i == Index(data, <<NL>>)
    IN  IF i >= 0
        THEN [advance |-> i + 1, token |-> dropCR(Slice(data, 0, i))]
        ELSE [advance |-> Len(data), token |-> dropCR(data)]

\* bufio.Scanner.Scan: there is a next token as long as input remains.
Scan(data) == data # <<>>

\* A faulty scanner position: the scanner does not move.
AdvanceNowhere(data, n) == data

\* A faulty scanner position: the rest of the input is lost after one token.
AdvanceToEnd(data, n) == <<>>

\* The scanner's position after a token has been delivered.
Advance(data, n) == Slice(data, n, Len(data))

\* All the lines a bufio.Scanner delivers for data, in order: the scanner
\* splits off one token and goes on behind it.
RECURSIVE ScanAll(_)
ScanAll(data) ==
    IF ~Scan(data) THEN <<>>
    ELSE CHOOSE lines \in {<<s.token>> \o ScanAll(Advance(data, s.advance)) :
                            s \in {ScanLines(data)}} : TRUE

\* A faulty ReadString: the end of the data counts as a delimiter.
ReadStringToEnd(data, delim) ==
    LET i == Index(data, <<delim>>)
    IN  IF i >= 0
        THEN [str |-> Slice(data, 0, i + 1), rest |-> Slice(data, i + 1, Len(data)), eof |-> FALSE]
        ELSE [str |-> data, rest |-> <<>>, eof |-> FALSE]

\* bytes.Buffer.ReadString(delim): the bytes up to and including the first
\* delim, or everything that is left together with io.EOF when there is none.
ReadString(data, delim) ==
    LET i == Index(data, <<delim>>)
    IN  IF i >= 0
        THEN [str |-> Slice(data, 0, i + 1), rest |-> Slice(data, i + 1, Len(data)), eof |-> FALSE]
        ELSE [str |-> data, rest |-> <<>>, eof |-> TRUE]

\* ------------------------------------------------------------ path/filepath

Separator == "/"

\* The 1-based position of the last separator of path, 0 when it has none.
LastSeparator(path) ==
    LET at == {i \in 1..Len(path) : path[i] = Separator}
    IN  IF at = {} THEN 0 ELSE CHOOSE i \in at : \A j \in at : j <= i

\* filepath.Split: the directory (with its final separator) and the file name.
Split(path) ==
    [dir  |-> SubSeq(path, 1, LastSeparator(path)),
     file |-> SubSeq(path, LastSeparator(path) + 1, Len(path))]

\* filepath.Clean, for the paths of this model (no "." or ".." elements):
\* runs of separators collapse to one and a final separator is dropped,
\* except in the root path.
RECURSIVE Clean(_)
Clean(p) ==
    LET dbl == Index(p, <<Separator, Separator>>)
    IN  IF dbl >= 0 THEN Clean(Slice(p, 0, dbl) \o Slice(p, dbl + 1, Len(p)))
        ELSE IF Len(p) > 1 /\ p[Len(p)] = Separator THEN Slice(p, 0, Len(p) - 1)
        ELSE p

\* filepath.Join(dir, name): the non-empty elements joined by a separator,
\* then cleaned.
Join(dir, name) ==
    IF dir = <<>> THEN Clean(name)
    ELSE IF name = <<>> THEN Clean(dir)
    ELSE Clean(dir \o <<Separator>> \o name)

\* strings.Split(s, sep): the pieces of s around every occurrence of sep.
RECURSIVE stringsSplit(_, _)
stringsSplit(s, sep) ==
    LET i == Index(s, sep)
    IN  IF i = -1 THEN <<s>>
        ELSE <<Slice(s, 0, i)>> \o stringsSplit(Slice(s, i + Len(sep), Len(s)), sep)

\* ------------------------------------------------------------------ errors

\* Go's nil, for an error, a byte slice or a *APIDefinition.
Nil == [kind |-> "nil"]

\* The errors of parser.go. fmt.Errorf's format is the kind, its arguments are
\* the other fields.
ErrFileNameNil(filePath) == [kind |-> "File name cannot be nil", path |-> filePath]
ErrCouldNotRead(filePath) == [kind |-> "Could not read file", path |-> filePath]
ErrProblemReading == [kind |-> "Problem reading RAML file", cause |-> "EOF"]
ErrNotRAML == [kind |-> "Input file is not a RAML 0.8 file"]
ErrIncluding(includedFile, cause) ==
    [kind |-> "Error including file", file |-> includedFile, cause |-> cause]
ErrPreprocessing(cause) == [kind |-> "Error preprocessing RAML file", cause |-> cause]
ErrParsing(cause) == [kind |-> "Problems parsing RAML", cause |-> cause]

\* ------------------------------------------------------------ the documents

\* The version marker ParseFile looks for, and the inclusion marker.
RamlMarker == <<"#","%","R","A","M","L"," ","0",".","8">>
Marker == <<"!","i","n","c","l","u","d","e">>
IncludeLength == Len(<<"!","i","n","c","l","u","d","e"," ">>)

\* The paths given to ParseFile: a file of the current directory, a file of a
\* directory, a file that does not exist, a path with no file name, the empty path.
MainPath == <<"m">>
Paths == {MainPath, <<"d","/","m">>, <<"x">>, <<"d","/">>, <<>>}

\* The contents of the included file f: empty, one line without a terminator,
\* two terminated lines, two lines with a CRLF and no final terminator.
IncludedContents == {<<>>, <<"b">>, <<"b","\n","c","\n">>, <<"b","\r","\n"," ","c">>}

\* The lines of a document body: a plain entry, an empty line, a directive
\* naming the file f, one naming a file that does not exist, the marker with
\* nothing after it, the marker with an empty path, an entry for the key of
\* APIDefinition.RAMLVersion, and a title that is a sequence, not a string.
BodyLines ==
    {<<"a",":"," ","b">>, <<>>, <<"k",":"," ","!","i","n","c","l","u","d","e"," ","f">>, <<"k",":"," ","!","i","n","c","l","u","d","e"," ","g">>, <<"k",":"," ","!","i","n","c","l","u","d","e">>,
     <<"k",":"," ","!","i","n","c","l","u","d","e"," ">>, <<"r","a","m","l","_","v","e","r","s","i","o","n",":"," ","x">>, <<"t","i","t","l","e",":"," ","[","a","]">>}

\* The line terminators, and what may end the last line.
Terminators == {<<NL>>, <<CR, NL>>}
LastTerminators == Terminators \cup {<<>>}

\* The most lines a document body holds.
MaxBodyLines == 2

\* The bodies of exactly n lines, and the bodies of at most MaxBodyLines lines.
RECURSIVE BodiesOf(_)
BodiesOf(n) ==
    IF n = 0 THEN {<<>>}
    ELSE IF n = 1 THEN {l \o t : l \in BodyLines, t \in LastTerminators}
    ELSE {l \o t \o b : l \in BodyLines, t \in Terminators, b \in BodiesOf(n - 1)}

Bodies == UNION {BodiesOf(n) : n \in 0..MaxBodyLines}

\* First lines: the marker, the marker with a CRLF, the marker followed by
\* more text, another version, a short line, the marker and no terminator (the
\* whole file when nothing follows, the start of a longer line otherwise),
\* nothing at all.
FirstLines ==
    {<<"#","%","R","A","M","L"," ","0",".","8","\n">>, <<"#","%","R","A","M","L"," ","0",".","8","\r","\n">>, <<"#","%","R","A","M","L"," ","0",".","8"," ","x","\n">>, <<"#","%","R","A","M","L"," ","0",".","9","\n">>,
     <<"#","%","R","A","M","L","\n">>, <<"#","%","R","A","M","L"," ","0",".","8">>, <<>>}

\* The file system: the main document m and the included file f, in the
\* current directory and in the directory d. No other file exists.
FileSystem(doc, included) ==
    (<<"m">> :> doc) @@ (<<"d","/","m">> :> doc) @@ (<<"f">> :> included) @@ (<<"d","/","f">> :> included)

\* What follows the first line when the first lines and the paths are varied:
\* nothing, or a body of two lines.
FirstLineBodies == {<<>>, <<"k",":"," ","!","i","n","c","l","u","d","e"," ","f","\n","a",":"," ","b","\n">>}

\* The runs: every body behind a good first line, read from m with every
\* content of f; and every first line under every path, with nothing or with
\* one body behind it.
Inputs ==
    {[path |-> MainPath, fs |-> FileSystem(<<"#","%","R","A","M","L"," ","0",".","8","\n">> \o b, inc)] :
        b \in Bodies, inc \in IncludedContents}
    \cup
    {[path |-> p, fs |-> FileSystem(fl \o b, <<"b","\n","c","\n">>)] :
        p \in Paths, fl \in FirstLines, b \in FirstLineBodies}

\* ------------------------------------------------------- the source reader

\* A faulty readFileContents: the file name is not looked at before the file
\* system is asked.
readFileContentsAnyName(fs, workingDirectory, fileName) ==
    LET filePath == Join(workingDirectory, fileName)
    IN  IF filePath \notin DOMAIN fs
        THEN [bytes |-> <<>>, err |-> ErrCouldNotRead(filePath), asked |-> TRUE]
        ELSE [bytes |-> fs[filePath], err |-> Nil, asked |-> TRUE]

\* readFileContents(workingDirectory, fileName) on the file system fs: the
\* bytes of the file, or an error; an empty file name is refused before the
\* file system is asked.
readFileContents(fs, workingDirectory, fileName) ==
    LET filePath == Join(workingDirectory, fileName)
    IN  IF fileName = <<>>
        THEN [bytes |-> <<>>, err |-> ErrFileNameNil(filePath), asked |-> FALSE]
        ELSE IF filePath \notin DOMAIN fs
        THEN [bytes |-> <<>>, err |-> ErrCouldNotRead(filePath), asked |-> TRUE]
        ELSE [bytes |-> fs[filePath], err |-> Nil, asked |-> TRUE]

\* What a call of readFileContents adds to the log of file-system reads.
ReadLog(fs, workingDirectory, fileName) ==
    IF readFileContents(fs, workingDirectory, fileName).asked
    THEN <<[op |-> "ReadFile", path |-> Join(workingDirectory, fileName)]>>
    ELSE <<>>

\* ------------------------------------------------------ the decoding engine

\* strconv.Itoa for n >= 0, as fmt's %d prints a line number.
Digits == <<"0", "1", "2", "3", "4", "5", "6", "7", "8", "9">>
RECURSIVE Itoa(_)
Itoa(n) == IF n < 10 THEN <<Digits[n + 1]>> ELSE Itoa(n \div 10) \o <<Digits[(n % 10) + 1]>>

\* The keys of the document that the field tags of APIDefinition map to its
\* string fields.
APIDefinitionKeys == (<<"r","a","m","l","_","v","e","r","s","i","o","n">> :> "RAMLVersion") @@ (<<"t","i","t","l","e">> :> "Title")

\* new(APIDefinition): every field has its zero value.
NewAPIDefinition == [kind |-> "APIDefinition", RAMLVersion |-> <<>>, Title |-> <<>>]

\* The engine's message for a node of the wrong kind.
CannotUnmarshal(n, tag, target) ==
    <<"l","i","n","e"," ">> \o Itoa(n) \o <<":"," ","c","a","n","n","o","t"," ","u","n","m","a","r","s","h","a","l"," ">> \o tag \o <<" ","i","n","t","o"," ">> \o target

\* The engine on one line of the buffer, line number n. A blank or indented
\* line belongs to the entry before it. A top-level line is `key:` or
\* `key: value`; anything else, or a value that holds `: ` itself, is a syntax
\* error. A known key sets its field, unless the value is a flow sequence,
\* which is a type error for a string field; unknown keys are ignored.
DecodeLine(line, n, acc) ==
    IF line = <<>> \/ line[1] = SP THEN acc
    ELSE
    LET colon == Index(line, <<":">>)
        wellFormed == colon > 0 /\ (colon + 1 = Len(line) \/ line[colon + 2] = SP)
        key == Slice(line, 0, colon)
        value == IF colon + 2 <= Len(line) THEN Slice(line, colon + 2, Len(line)) ELSE <<>>
    IN  IF ~wellFormed \/ Contains(value, <<":", SP>>)
        THEN IF acc.syntax = 0 THEN [acc EXCEPT !.syntax = n] ELSE acc
        ELSE IF key \notin DOMAIN APIDefinitionKeys THEN acc
        ELSE IF HasPrefix(value, <<"[">>)
        THEN [acc EXCEPT !.terrors = @ \o <<CannotUnmarshal(n, <<"!","!","s","e","q">>, <<"s","t","r","i","n","g">>)>>]
        ELSE [acc EXCEPT !.model[APIDefinitionKeys[key]] = value]

RECURSIVE DecodeLines(_, _, _)
DecodeLines(lines, n, acc) ==
    IF n > Len(lines) THEN acc
    ELSE DecodeLines(lines, n + 1, DecodeLine(lines[n], n, acc))

\* yaml.Unmarshal(buffer, apiDefinition): the value decoded into, and the
\* error. A syntax error leaves the value untouched; type errors are collected
\* over the whole document while the other fields are still set.
Unmarshal(buffer, apiDefinition) ==
    LET r == DecodeLines(stringsSplit(buffer, <<NL>>), 1,
                         [model |-> apiDefinition, terrors |-> <<>>, syntax |-> 0])
    IN  IF r.syntax # 0
        THEN [model |-> apiDefinition, err |-> [kind |-> "yaml", line |-> r.syntax]]
        ELSE IF r.terrors # <<>>
        THEN [model |-> r.model, err |-> [kind |-> "yaml.TypeError", Errors |-> r.terrors]]
        ELSE [model |-> r.model, err |-> Nil]

\* ------------------------------------------------------------------- state

VARIABLES
    path,                       \* ParseFile's argument filePath
    fs,                         \* the file system: path -> bytes
    pc,                         \* where ParseFile is
    workingDirectory,           \* ParseFile's workingDirectory
    mainFileBytes,              \* the bytes of the main file
    mainFileBuffer,             \* what is left to read of mainFileBuffer
    ramlVersion,                \* ParseFile's ramlVersion
    preprocessedContents,       \* preProcess's output buffer
    preprocessedContentsBytes,  \* what preProcess returned to ParseFile
    err,                        \* ParseFile's err, as last assigned
    ret,                        \* what ParseFile returned: model and error
    log,                        \* the file reads and the stages entered, in order
    iteration,                  \* the last iteration of preProcess's scanning loop
    ramlErrorValue,             \* the RamlError populateRAMLError fills
    yamlTypeError,              \* the yaml.TypeError it is given
    rawFacts,                   \* what each raw error of yamlTypeError was made from
    errorsBefore,               \* ramlErrorValue.Errors when populateRAMLError was called
    report,                     \* what RamlError.Error() returned
    tpc,                        \* where the translator is
    node,                       \* the node a DefinitionChoice is decoded from
    receiver,                   \* the DefinitionChoice before UnmarshalYAML is called
    dc,                         \* the DefinitionChoice of each of two decodings of node
    dcCall,                     \* where each decoding is, and the error it returned
    parameterContext,           \* the key a named parameter is declared under
    parameterNode,              \* the attributes of the named parameter's mapping
    namedParameter,             \* the NamedParameter the engine decodes into
    npc,                        \* where the decoding of the named parameter is
    other,                      \* the locals of the ParseFile call that is not running
    running,                    \* which of the two ParseFile calls is running
    interleaved,                \* whether a call was set aside after it had begun
    tables                      \* the package-level lookup tables

\* The state of a ParseFile call, of the translator, of the decodings of a
\* DefinitionChoice and of a NamedParameter, and of a second ParseFile call.
parseVars ==
    <<path, fs, pc, workingDirectory, mainFileBytes, mainFileBuffer, ramlVersion,
      preprocessedContents, preprocessedContentsBytes, err, ret, log, iteration>>
translatorVars == <<ramlErrorValue, yamlTypeError, rawFacts, errorsBefore, report, tpc>>
decoderVars ==
    <<node, receiver, dc, dcCall, parameterContext, parameterNode, namedParameter, npc>>
callVars == <<other, running, interleaved, tables>>

\* What no step of ParseFile touches.
otherVars == <<translatorVars, decoderVars, callVars>>

vars == <<parseVars, otherVars>>

NoIteration ==
    [outcome |-> "none", line |-> <<>>, idx |-> -1, included |-> <<>>, before |-> <<>>]

\* --------------------------------------------------------------- ParseFile

\* `return nil, err`
ReturnError(e) == [model |-> Nil, err |-> e]

\* `return apiDefinition, nil`
ReturnModel(apiDefinition) == [model |-> apiDefinition, err |-> Nil]

\* A faulty return on a decoding error: the partly decoded value is handed
\* out together with the error.
ReturnUnmarshalErrorWithModel(apiDefinition, e) ==
    [model |-> apiDefinition, err |-> ErrParsing(e)]

\* ParseFile's return when yaml.Unmarshal has failed.
ReturnUnmarshalError(apiDefinition, e) == [model |-> Nil, err |-> ErrParsing(e)]

\* The version ParseFile takes from the first line it has read.
VersionOf(firstLine) ==
    IF Len(firstLine) >= 10 THEN Slice(firstLine, 0, 10) ELSE <<>>

\* A faulty version test: only the major version is compared.
VersionAcceptedMajorOnly(version) == HasPrefix(version, <<"#","%","R","A","M","L"," ","0",".">>)

\* The version test of ParseFile.
VersionAccepted(version) == version = RamlMarker

\* A faulty test of preProcess's error: the error is not looked at.
PreProcessNeverFailed(e) == FALSE

\* ParseFile's test of preProcess's error.
PreProcessFailed(e) == e # Nil

\* ParseFile up to the main file's bytes: the path is split, the file is read,
\* and a read error is returned as it is.
ReadMainFile ==
    /\ pc = "ParseFile"
    /\ LET sp == Split(path)
           r == readFileContents(fs, sp.dir, sp.file)
       IN  /\ workingDirectory' = sp.dir
           /\ log' = log \o ReadLog(fs, sp.dir, sp.file)
           /\ err' = r.err
           /\ mainFileBytes' = r.bytes
           /\ mainFileBuffer' = r.bytes
           /\ IF r.err # Nil
              THEN pc' = "done" /\ ret' = ReturnError(r.err)
              ELSE pc' = "version" /\ UNCHANGED ret
    /\ UNCHANGED <<path, fs, ramlVersion, preprocessedContents,
                   preprocessedContentsBytes, iteration>>
    /\ UNCHANGED otherVars

\* The first line is read up to its newline and its first ten bytes are
\* compared with the marker.
VerifyVersion ==
    /\ pc = "version"
    /\ LET r == ReadString(mainFileBuffer, NL)
           version == VersionOf(r.str)
       IN  /\ mainFileBuffer' = r.rest
           /\ IF r.eof
              THEN /\ pc' = "done"
                   /\ ret' = ReturnError(ErrProblemReading)
                   /\ UNCHANGED <<ramlVersion, log>>
              ELSE /\ ramlVersion' = version
                   /\ IF ~VersionAccepted(version)
                      THEN pc' = "done" /\ ret' = ReturnError(ErrNotRAML) /\ UNCHANGED log
                      ELSE /\ pc' = "preProcess"
                           /\ log' = log \o <<[op |-> "preProcess", path |-> <<>>]>>
                           /\ UNCHANGED ret
    /\ UNCHANGED <<path, fs, workingDirectory, mainFileBytes, preprocessedContents,
                   preprocessedContentsBytes, err, iteration>>
    /\ UNCHANGED otherVars

\* -------------------------------------------------------------- preProcess

\* A faulty path of a directive: it ends at the next space.
IncludedFileFirstWord(line, idx) ==
    LET rest == Slice(line, idx + IncludeLength, Len(line))
        sp == Index(rest, <<SP>>)
    IN  IF sp = -1 THEN rest ELSE Slice(rest, 0, sp)

\* The path of a directive: what follows the marker and one more byte.
IncludedFile(line, idx) == Slice(line, idx + IncludeLength, Len(line))

\* A faulty indentation: one space more than the directive's column.
IndentationOneMore(idx) == Repeat(SP, idx + 1)

\* The indentation of the included lines after the first.
Indentation(idx) == Repeat(SP, idx)

\* The error preProcess returns when the included file cannot be read.
IncludeFailure(includedFile, cause) == ErrIncluding(includedFile, cause)

\* A faulty loop over the included file's lines: a line that holds the marker
\* is written up to the marker only.
RECURSIVE WriteIncludedUpToMarker(_, _, _)
WriteIncludedUpToMarker(lines, indentationString, idx) ==
    IF lines = <<>> THEN <<>>
    ELSE LET at == Index(Head(lines), Marker)
             kept == IF at = -1 THEN Head(lines) ELSE Slice(Head(lines), 0, at)
         IN  indentationString \o kept \o <<NL>>
             \o WriteIncludedUpToMarker(Tail(lines), Indentation(idx), idx)

\* The loop over the included file's lines: each is written behind the
\* current indentation, which is empty for the first line, and a newline.
RECURSIVE WriteIncluded(_, _, _)
WriteIncluded(lines, indentationString, idx) ==
    IF lines = <<>> THEN <<>>
    ELSE indentationString \o Head(lines) \o <<NL>>
         \o WriteIncluded(Tail(lines), Indentation(idx), idx)

\* One iteration of the scanning loop: a line without the marker is copied
\* with a newline; for a line with the marker the text before it is written,
\* the file named behind it is read and its lines are written. Slicing the
\* path out of a line that ends with the marker is out of range and panics.
\* A read error ends preProcess, and ParseFile returns it wrapped.
PreProcessLine ==
    /\ pc = "preProcess"
    /\ Scan(mainFileBuffer)
    /\ \E s \in {ScanLines(mainFileBuffer)} :
       \E line \in {s.token} :
       \E idx \in {Index(line, Marker)} :
       \E includedFile \in {IncludedFile(line, idx)} :
       \E r \in {readFileContents(fs, workingDirectory, includedFile)} :
       LET it == [outcome |-> "copied", line |-> line, idx |-> idx,
                  included |-> <<>>, before |-> preprocessedContents]
       IN  /\ mainFileBuffer' = Advance(mainFileBuffer, s.advance)
           /\ IF idx = -1
              THEN /\ preprocessedContents' = preprocessedContents \o line \o <<NL>>
                   /\ iteration' = it
                   /\ UNCHANGED <<pc, err, ret, log>>
              ELSE IF ~SliceInRange(line, idx + IncludeLength, Len(line))
              THEN /\ pc' = "panic"
                   /\ iteration' = [it EXCEPT !.outcome = "panic"]
                   /\ UNCHANGED <<preprocessedContents, err, ret, log>>
              ELSE IF r.err # Nil
              THEN /\ preprocessedContents' = preprocessedContents \o Slice(line, 0, idx)
                   /\ iteration' = [it EXCEPT !.outcome = "IncludeError"]
                   /\ log' = log \o ReadLog(fs, workingDirectory, includedFile)
                   /\ err' = IncludeFailure(includedFile, r.err)
                   /\ IF PreProcessFailed(err')
                      THEN pc' = "done" /\ ret' = ReturnError(ErrPreprocessing(err'))
                      ELSE pc' = "Unmarshal" /\ UNCHANGED ret
              ELSE /\ preprocessedContents' =
                        preprocessedContents \o Slice(line, 0, idx)
                        \o WriteIncluded(ScanAll(r.bytes), <<>>, idx)
                   /\ iteration' = [it EXCEPT !.outcome = "spliced", !.included = r.bytes]
                   /\ log' = log \o ReadLog(fs, workingDirectory, includedFile)
                   /\ UNCHANGED <<pc, err, ret>>
    /\ UNCHANGED <<path, fs, workingDirectory, mainFileBytes, ramlVersion,
                   preprocessedContentsBytes>>
    /\ UNCHANGED otherVars

\* The scanner has reached the end of the input: preProcess returns its
\* buffer, and ParseFile goes on to decode it.
PreProcessReturn ==
    /\ pc = "preProcess"
    /\ ~Scan(mainFileBuffer)
    /\ preprocessedContentsBytes' = preprocessedContents
    /\ err' = Nil
    /\ pc' = IF PreProcessFailed(err') THEN "done" ELSE "Unmarshal"
    /\ UNCHANGED <<path, fs, workingDirectory, mainFileBytes, mainFileBuffer,
                   ramlVersion, preprocessedContents, ret, log, iteration>>
    /\ UNCHANGED otherVars

\* ParseFile's decoding: a fresh APIDefinition gets the version, the engine
\* decodes the buffer into it, and its error, if any, is returned wrapped.
Decode ==
    /\ pc = "Unmarshal"
    /\ LET apiDefinition == [NewAPIDefinition EXCEPT !.RAMLVersion = ramlVersion]
           r == Unmarshal(preprocessedContentsBytes, apiDefinition)
       IN  /\ log' = log \o <<[op |-> "Unmarshal", path |-> <<>>]>>
           /\ err' = r.err
           /\ ret' = IF r.err # Nil
                     THEN ReturnUnmarshalError(r.model, r.err)
                     ELSE ReturnModel(r.model)
    /\ pc' = "done"
    /\ UNCHANGED <<path, fs, workingDirectory, mainFileBytes, mainFileBuffer,
                   ramlVersion, preprocessedContents, preprocessedContentsBytes,
                   iteration>>
    /\ UNCHANGED otherVars

\* ------------------------------------------------ the diagnostic translator

\* The kind-name table: the engine's node tags and their names.
yamlTypeToName ==
    (<<"!","!","s","e","q">> :> <<"s","e","q","u","e","n","c","e">>) @@
    (<<"!","!","m","a","p">> :> <<"m","a","p","p","i","n","g">>) @@
    (<<"!","!","i","n","t">> :> <<"i","n","t","e","g","e","r">>) @@
    (<<"!","!","s","t","r">> :> <<"s","t","r","i","n","g">>) @@
    (<<"!","!","n","u","l","l">> :> <<"n","u","l","l">>) @@
    (<<"!","!","b","o","o","l">> :> <<"b","o","o","l","e","a","n">>) @@
    (<<"!","!","f","l","o","a","t">> :> <<"f","l","o","a","t">>) @@
    (<<"!","!","t","i","m","e","s","t","a","m","p">> :> <<"t","i","m","e","s","t","a","m","p">>) @@
    (<<"!","!","b","i","n","a","r","y">> :> <<"b","i","n","a","r","y">>) @@
    (<<"!","!","m","e","r","g","e">> :> <<"m","e","r","g","e">>)

\* The type-name table: the target types and their RAML names.
ramlTypeNames ==
    (<<"s","t","r","i","n","g">> :> <<"s","t","r","i","n","g"," ","v","a","l","u","e">>) @@
    (<<"i","n","t">> :> <<"n","u","m","e","r","i","c"," ","v","a","l","u","e">>) @@
    (<<"r","a","m","l",".","N","a","m","e","d","P","a","r","a","m","e","t","e","r">> :> <<"n","a","m","e","d"," ","p","a","r","a","m","e","t","e","r">>) @@
    (<<"r","a","m","l",".","H","T","T","P","C","o","d","e">> :> <<"H","T","T","P"," ","c","o","d","e">>) @@
    (<<"r","a","m","l",".","H","T","T","P","H","e","a","d","e","r">> :> <<"H","T","T","P"," ","h","e","a","d","e","r">>) @@
    (<<"r","a","m","l",".","H","e","a","d","e","r">> :> <<"h","e","a","d","e","r">>) @@
    (<<"r","a","m","l",".","D","o","c","u","m","e","n","t","a","t","i","o","n">> :> <<"d","o","c","u","m","e","n","t","a","t","i","o","n">>) @@
    (<<"r","a","m","l",".","B","o","d","y">> :> <<"b","o","d","y">>) @@
    (<<"r","a","m","l",".","R","e","s","p","o","n","s","e">> :> <<"r","e","s","p","o","n","s","e">>) @@
    (<<"r","a","m","l",".","D","e","f","i","n","i","t","i","o","n","P","a","r","a","m","e","t","e","r","s">> :> <<"d","e","f","i","n","i","t","i","o","n"," ","p","a","r","a","m","e","t","e","r","s">>) @@
    (<<"r","a","m","l",".","D","e","f","i","n","i","t","i","o","n","C","h","o","i","c","e">> :> <<"d","e","f","i","n","i","t","i","o","n"," ","c","h","o","i","c","e">>) @@
    (<<"r","a","m","l",".","T","r","a","i","t">> :> <<"t","r","a","i","t">>) @@
    (<<"r","a","m","l",".","R","e","s","o","u","r","c","e","T","y","p","e","M","e","t","h","o","d">> :> <<"r","e","s","o","u","r","c","e"," ","t","y","p","e"," ","m","e","t","h","o","d">>) @@
    (<<"r","a","m","l",".","R","e","s","o","u","r","c","e","T","y","p","e">> :> <<"r","e","s","o","u","r","c","e"," ","t","y","p","e">>) @@
    (<<"r","a","m","l",".","S","e","c","u","r","i","t","y","S","c","h","e","m","e","M","e","t","h","o","d">> :> <<"s","e","c","u","r","i","t","y"," ","s","c","h","e","m","e"," ","m","e","t","h","o","d">>) @@
    (<<"r","a","m","l",".","S","e","c","u","r","i","t","y","S","c","h","e","m","e">> :> <<"s","e","c","u","r","i","t","y"," ","s","c","h","e","m","e">>) @@
    (<<"r","a","m","l",".","M","e","t","h","o","d">> :> <<"m","e","t","h","o","d">>) @@
    (<<"r","a","m","l",".","R","e","s","o","u","r","c","e">> :> <<"r","e","s","o","u","r","c","e">>) @@
    (<<"r","a","m","l",".","A","P","I","D","e","f","i","n","i","t","i","o","n">> :> <<"A","P","I"," ","d","e","f","i","n","i","t","i","o","n">>)

\* The type-category table: the target types and the node kind each must be.
ramlTypes ==
    (<<"s","t","r","i","n","g">> :> <<"s","t","r","i","n","g">>) @@
    (<<"i","n","t">> :> <<"i","n","t","e","g","e","r">>) @@
    (<<"r","a","m","l",".","N","a","m","e","d","P","a","r","a","m","e","t","e","r">> :> <<"m","a","p","p","i","n","g">>) @@
    (<<"r","a","m","l",".","H","T","T","P","C","o","d","e">> :> <<"i","n","t","e","g","e","r">>) @@
    (<<"r","a","m","l",".","H","T","T","P","H","e","a","d","e","r">> :> <<"s","t","r","i","n","g">>) @@
    (<<"r","a","m","l",".","H","e","a","d","e","r">> :> <<"m","a","p","p","i","n","g">>) @@
    (<<"r","a","m","l",".","D","o","c","u","m","e","n","t","a","t","i","o","n">> :> <<"m","a","p","p","i","n","g">>) @@
    (<<"r","a","m","l",".","B","o","d","y">> :> <<"m","a","p","p","i","n","g">>) @@
    (<<"r","a","m","l",".","R","e","s","p","o","n","s","e">> :> <<"m","a","p","p","i","n","g">>) @@
    (<<"r","a","m","l",".","D","e","f","i","n","i","t","i","o","n","P","a","r","a","m","e","t","e","r","s">> :> <<"m","a","p","p","i","n","g">>) @@
    (<<"r","a","m","l",".","D","e","f","i","n","i","t","i","o","n","C","h","o","i","c","e">> :> <<"s","t","r","i","n","g"," ","o","r"," ","m","a","p","p","i","n","g">>) @@
    (<<"r","a","m","l",".","T","r","a","i","t">> :> <<"m","a","p","p","i","n","g">>) @@
    (<<"r","a","m","l",".","R","e","s","o","u","r","c","e","T","y","p","e","M","e","t","h","o","d">> :> <<"m","a","p","p","i","n","g">>) @@
    (<<"r","a","m","l",".","R","e","s","o","u","r","c","e","T","y","p","e">> :> <<"m","a","p","p","i","n","g">>) @@
    (<<"r","a","m","l",".","S","e","c","u","r","i","t","y","S","c","h","e","m","e","M","e","t","h","o","d">> :> <<"m","a","p","p","i","n","g">>) @@
    (<<"r","a","m","l",".","S","e","c","u","r","i","t","y","S","c","h","e","m","e">> :> <<"m","a","p","p","i","n","g">>) @@
    (<<"r","a","m","l",".","M","e","t","h","o","d">> :> <<"m","a","p","p","i","n","g">>) @@
    (<<"r","a","m","l",".","R","e","s","o","u","r","c","e">> :> <<"m","a","p","p","i","n","g">>) @@
    (<<"r","a","m","l",".","A","P","I","D","e","f","i","n","i","t","i","o","n">> :> <<"m","a","p","p","i","n","g">>)

\* A map lookup with Go's `v, ok := m[k]`, and the raw key when !ok.
LookupOr(table, key) == IF key \in DOMAIN table THEN table[key] ELSE key

\* A faulty lookup of the category: a missing key gives the key itself.
LookupZeroFallingBack(table, key) == IF key \in DOMAIN table THEN table[key] ELSE key

\* A map lookup whose missing key gives the zero value, the empty string.
LookupZero(table, key) == IF key \in DOMAIN table THEN table[key] ELSE <<>>

\* convertYAMLError(yamlError): the RAML message for one engine message, or a
\* panic where the code indexes a part or slices the line number out of range.
convertYAMLError(yamlError) ==
    LET yamlErrorParts == stringsSplit(yamlError, <<SP>>)
        line == yamlErrorParts[2]
        source == LookupOr(yamlTypeToName, yamlErrorParts[5])
        isString == source = <<"s","t","r","i","n","g">>
        target == IF isString THEN yamlErrorParts[8] ELSE yamlErrorParts[7]
        shown == IF isString
                 THEN <<"s","t","r","i","n","g"," ","(","g","o","t"," ">> \o yamlErrorParts[6] \o <<")">>
                 ELSE source
    IN  IF Contains(yamlError, <<"c","a","n","n","o","t"," ","u","n","m","a","r","s","h","a","l">>) /\ Len(yamlErrorParts) >= 7
        THEN IF ~SliceInRange(line, 0, Len(line) - 1)
                \/ (isString /\ Len(yamlErrorParts) < 8)
             THEN [panic |-> TRUE, msg |-> <<>>]
             ELSE [panic |-> FALSE,
                   msg |-> <<"l","i","n","e"," ">> \o Slice(line, 0, Len(line) - 1) \o <<":"," ">>
                           \o LookupOr(ramlTypeNames, target)
                           \o <<" ","c","a","n","n","o","t"," ","b","e"," ","o","f"," ","t","y","p","e"," ">> \o shown
                           \o <<","," ","m","u","s","t"," ","b","e"," ">> \o LookupZero(ramlTypes, target)]
        ELSE [panic |-> FALSE, msg |-> <<"Y","A","M","L"," ","e","r","r","o","r",","," ">> \o yamlError]

\* A faulty populateRAMLError: each message is put in front of the others.
populateRAMLErrorNewestFirst(ramlError, yamlErrors) ==
    [ramlError EXCEPT !.Errors =
        [i \in 1..Len(yamlErrors.Errors) |->
            convertYAMLError(yamlErrors.Errors[Len(yamlErrors.Errors) + 1 - i]).msg] \o @]

\* populateRAMLError(ramlError, yamlErrors): the converted messages appended
\* to ramlError.Errors, in the order of yamlErrors.Errors.
populateRAMLError(ramlError, yamlErrors) ==
    [ramlError EXCEPT !.Errors =
        @ \o [i \in 1..Len(yamlErrors.Errors) |-> convertYAMLError(yamlErrors.Errors[i]).msg]]

\* strings.Join(elems, sep)
RECURSIVE stringsJoin(_, _)
stringsJoin(elems, sep) ==
    IF elems = <<>> THEN <<>>
    ELSE IF Len(elems) = 1 THEN elems[1]
    ELSE elems[1] \o sep \o stringsJoin(Tail(elems), sep)

\* RamlError.Error(): the messages joined into one multi-line string.
RamlErrorError(e) ==
    <<"E","r","r","o","r"," ","p","a","r","s","i","n","g"," ","R","A","M","L",":","\n"," "," ">> \o stringsJoin(e.Errors, <<"\n"," "," ">>) \o <<NL>>

\* An empty RamlError value.
NewRamlError == [kind |-> "RamlError", Errors |-> <<>>]

\* ---------------------------------------------------- the translator's runs

\* The backquote the engine puts around a scalar's value is written ' here.
Backquote == "'"

\* The engine's value snippet, which follows the tag of every node that is
\* neither a sequence nor a mapping: the value between backquotes, cut to
\* seven bytes and three dots when it is longer than ten.
ValueSnippet(value) ==
    <<SP, Backquote>>
    \o (IF Len(value) > 10 THEN Slice(value, 0, 7) \o <<".",".",".">> ELSE value)
    \o <<Backquote>>

\* The engine's message for a scalar of the wrong kind.
CannotUnmarshalScalar(n, tag, value, target) ==
    <<"l","i","n","e"," ">> \o Itoa(n) \o <<":"," ","c","a","n","n","o","t"," ","u","n","m","a","r","s","h","a","l"," ">> \o tag \o ValueSnippet(value)
    \o <<" ","i","n","t","o"," ">> \o target

\* A raw error and what it was made from: a sequence or mapping at line n
\* where target is declared, a scalar there, or any other text.
NodeError(n, tag, target) ==
    [form |-> "node", n |-> n, tag |-> tag, value |-> <<>>, target |-> target,
     text |-> CannotUnmarshal(n, tag, target)]
ScalarError(n, tag, value, target) ==
    [form |-> "scalar", n |-> n, tag |-> tag, value |-> value, target |-> target,
     text |-> CannotUnmarshalScalar(n, tag, value, target)]
OtherError(text) ==
    [form |-> "other", n |-> 0, tag |-> <<>>, value |-> <<>>, target |-> <<>>,
     text |-> text]

\* The raw errors populateRAMLError is given: known and unknown tags and
\* types, values with and without spaces, a long value, a syntax error, and
\* two texts that hold `cannot unmarshal` without being the engine's.
RawErrors ==
    {NodeError(3, <<"!","!","s","e","q">>, <<"s","t","r","i","n","g">>),
     NodeError(12, <<"!","!","m","a","p">>, <<"r","a","m","l",".","H","T","T","P","C","o","d","e">>),
     NodeError(3, <<"!","!","m","a","p">>, <<"[","]","s","t","r","i","n","g">>),
     ScalarError(3, <<"!","!","s","t","r">>, <<"a","b","c">>, <<"r","a","m","l",".","H","T","T","P","C","o","d","e">>),
     ScalarError(3, <<"!","!","s","t","r">>, <<"a"," ","b">>, <<"r","a","m","l",".","H","T","T","P","C","o","d","e">>),
     ScalarError(3, <<"!","!","s","t","r">>, <<"a","b","c","d","e","f","g","h","i","j","k">>, <<"r","a","m","l",".","H","T","T","P","C","o","d","e">>),
     ScalarError(4, <<"!","!","i","n","t">>, <<"5">>, <<"r","a","m","l",".","N","a","m","e","d","P","a","r","a","m","e","t","e","r">>),
     ScalarError(3, <<"!","!","i","n","t">>, <<"5">>, <<"[","]","s","t","r","i","n","g">>),
     ScalarError(3, <<"!","f","o","o">>, <<"x">>, <<"i","n","t">>),
     OtherError(<<"y","a","m","l",":"," ","b","a","d">>),
     OtherError(<<"l","i","n","e"," ","3",":"," ","c","a","n","n","o","t"," ","u","n","m","a","r","s","h","a","l"," ","!","!","s","t","r"," ","i","n","t","o"," ","i","n","t">>),
     OtherError(<<"x"," "," ","c","a","n","n","o","t"," ","u","n","m","a","r","s","h","a","l"," ","a"," ","b"," ","c"," ","d">>)}

\* How many raw errors one yaml.TypeError holds at most.
MaxErrors == 2

\* What RamlError.Errors holds before populateRAMLError is called.
ErrorsBefore == {<<>>, <<<<"l","i","n","e"," ","1",":"," ","t","i","t","l","e"," ","c","a","n","n","o","t"," ","b","e"," ","o","f"," ","t","y","p","e"," ","s","e","q","u","e","n","c","e",","," ","m","u","s","t"," ","b","e"," ","s","t","r","i","n","g">>>>}

\* The first raw error convertYAMLError panics on, or 0.
FirstPanic(errors) ==
    LET panics == {i \in DOMAIN errors : convertYAMLError(errors[i]).panic}
    IN  IF panics = {} THEN 0 ELSE CHOOSE i \in panics : \A j \in panics : i <= j

\* A call of populateRAMLError. RamlError is passed by pointer: when a
\* conversion panics, the messages appended before it stay.
Populate ==
    /\ tpc = "populateRAMLError"
    /\ LET k == FirstPanic(yamlTypeError.Errors)
       IN  IF k = 0
           THEN /\ ramlErrorValue' = populateRAMLError(ramlErrorValue, yamlTypeError)
                /\ tpc' = "returned"
           ELSE /\ ramlErrorValue' =
                     populateRAMLError(ramlErrorValue,
                         [yamlTypeError EXCEPT !.Errors = SubSeq(@, 1, k - 1)])
                /\ tpc' = "panic"
    /\ UNCHANGED <<yamlTypeError, rawFacts, errorsBefore, report>>
    /\ UNCHANGED <<parseVars, decoderVars, callVars>>

\* A call of RamlError.Error() on the populated value.
ErrorString ==
    /\ tpc = "returned"
    /\ report' = RamlErrorError(ramlErrorValue)
    /\ tpc' = "reported"
    /\ UNCHANGED <<ramlErrorValue, yamlTypeError, rawFacts, errorsBefore>>
    /\ UNCHANGED <<parseVars, decoderVars, callVars>>

\* ------------------------------------------------------ DefinitionChoice

\* The nodes of a document: a scalar with its value, a sequence, or a mapping
\* with its entries, each a key and the node under it.
ScalarNode(line, value) ==
    [kind |-> "scalar", line |-> line, value |-> value, entries |-> {}]
SequenceNode(line, items) ==
    [kind |-> "sequence", line |-> line, value |-> <<>>, entries |-> items]
MappingNode(line, entries) ==
    [kind |-> "mapping", line |-> line, value |-> <<>>, entries |-> entries]

\* A Go map with its entries, each a key and a value; the nil map is Nil.
Map(entries) == [kind |-> "map", entries |-> entries]

\* The nodes a DefinitionChoice is decoded from: `t`, `{}`, `{t: {p: v}}`,
\* `{t: {p: v}, u: {}}`, `[t]` and `{t: [x]}`.
ChoiceNodes ==
    {ScalarNode(2, <<"t">>),
     MappingNode(2, {}),
     MappingNode(2, {<<<<"t">>, MappingNode(2, {<<<<"p">>, ScalarNode(2, <<"v">>)>>})>>}),
     MappingNode(2, {<<<<"t">>, MappingNode(3, {<<<<"p">>, ScalarNode(3, <<"v">>)>>})>>,
                     <<<<"u">>, MappingNode(4, {})>>}),
     SequenceNode(2, {<<<<"0">>, ScalarNode(2, <<"t">>)>>}),
     MappingNode(2, {<<<<"t">>, SequenceNode(2, {<<<<"0">>, ScalarNode(2, <<"x">>)>>})>>})}

\* The DefinitionChoice values UnmarshalYAML is called on: the zero value and
\* one that holds a name and parameters.
Receivers ==
    {[Name |-> <<>>, Parameters |-> Nil],
     [Name |-> <<"o">>, Parameters |-> Map({<<<<"q">>, <<"w">>>>})]}

\* The two decodings of one node.
Runs == {1, 2}

\* The engine's error for node n decoded into a value of type target.
TypeError(n, target) ==
    [kind |-> "yaml.TypeError",
     Errors |-> <<IF n.kind = "scalar"
                  THEN CannotUnmarshalScalar(n.line, <<"!","!","s","t","r">>, n.value, target)
                  ELSE CannotUnmarshal(n.line, IF n.kind = "sequence" THEN <<"!","!","s","e","q">> ELSE <<"!","!","m","a","p">>,
                                       target)>>]

\* unmarshaler(simpleDefinition): the engine decodes the node into a string,
\* which only a scalar can be.
UnmarshalString(n) ==
    IF n.kind = "scalar"
    THEN [value |-> n.value, err |-> Nil]
    ELSE [value |-> <<>>, err |-> TypeError(n, <<"s","t","r","i","n","g">>)]

\* The nodes under n that cannot be decoded into map[string]DefinitionParameters:
\* n itself when it is no mapping, else the values that are no mapping and the
\* values under them that are no scalar.
Mismatches(n) ==
    IF n.kind # "mapping" THEN {<<n, <<"m","a","p","[","s","t","r","i","n","g","]","r","a","m","l",".","D","e","f","i","n","i","t","i","o","n","P","a","r","a","m","e","t","e","r","s">>>>}
    ELSE {<<e[2], <<"r","a","m","l",".","D","e","f","i","n","i","t","i","o","n","P","a","r","a","m","e","t","e","r","s">>>> : e \in {x \in n.entries : x[2].kind # "mapping"}}
         \cup {<<p[2], <<"s","t","r","i","n","g">>>> :
                 p \in UNION {{y \in e[2].entries : y[2].kind # "scalar"} :
                                e \in {x \in n.entries : x[2].kind = "mapping"}}}

\* unmarshaler(parameterizedDefinition): the engine decodes the node into a
\* map from names to DefinitionParameters.
UnmarshalParameterized(n) ==
    IF Mismatches(n) = {}
    THEN [value |-> {<<e[1], Map({<<p[1], p[2].value>> : p \in e[2].entries})>> : e \in n.entries},
          err |-> Nil]
    ELSE LET m == CHOOSE x \in Mismatches(n) : TRUE
         IN  [value |-> {}, err |-> TypeError(m[1], m[2])]

\* The entries `range parameterizedDefinition` can visit last: any of them,
\* as the order of a Go map's iteration is not specified.
NoEntry == <<<<>>, Nil>>
VisitedLast(n) ==
    LET parameterized == UnmarshalParameterized(n)
    IN  IF UnmarshalString(n).err # Nil /\ parameterized.err = Nil /\ parameterized.value # {}
        THEN parameterized.value
        ELSE {NoEntry}

\* A faulty UnmarshalYAML: a scalar leaves the parameters as they were.
UnmarshalYAMLKeepingParameters(d, n, last) ==
    IF UnmarshalString(n).err = Nil
    THEN [dc |-> [d EXCEPT !.Name = UnmarshalString(n).value], err |-> Nil]
    ELSE IF UnmarshalParameterized(n).err = Nil
    THEN [dc |-> IF last = NoEntry THEN d ELSE [Name |-> last[1], Parameters |-> last[2]],
          err |-> Nil]
    ELSE [dc |-> d, err |-> UnmarshalParameterized(n).err]

\* DefinitionChoice.UnmarshalYAML on the receiver d and the node n: a string
\* is tried first, then the map, whose entries are all assigned in turn, so
\* that the one visited last stays; the error is that of the last attempt.
UnmarshalYAML(d, n, last) ==
    LET simpleDefinition == UnmarshalString(n)
        parameterizedDefinition == UnmarshalParameterized(n)
    IN  IF simpleDefinition.err = Nil
        THEN [dc |-> [Name |-> simpleDefinition.value, Parameters |-> Nil], err |-> Nil]
        ELSE IF parameterizedDefinition.err = Nil
        THEN [dc |-> IF last = NoEntry THEN d
                     ELSE [Name |-> last[1], Parameters |-> last[2]],
              err |-> Nil]
        ELSE [dc |-> d, err |-> parameterizedDefinition.err]

\* One of the two decodings calls UnmarshalYAML.
UnmarshalChoice ==
    /\ \E r \in Runs :
         /\ dcCall[r].pc = "UnmarshalYAML"
         /\ \E last \in VisitedLast(node) :
              LET res == UnmarshalYAML(dc[r], node, last)
              IN  /\ dc' = [dc EXCEPT ![r] = res.dc]
                  /\ dcCall' = [dcCall EXCEPT ![r] = [pc |-> "returned", err |-> res.err]]
    /\ UNCHANGED <<node, receiver, parameterContext, parameterNode, namedParameter, npc>>
    /\ UNCHANGED <<parseVars, translatorVars, callVars>>

\* --------------------------------------------------------- NamedParameter

\* The keys whose values are maps of NamedParameter, and the mappings a
\* parameter is declared with: `required` is absent, true or false.
ParameterContexts ==
    {"uriParameters", "baseUriParameters", "queryParameters", "formParameters", "headers"}
ParameterNodes ==
    {{}, {<<<<"r","e","q","u","i","r","e","d">>, TRUE>>}, {<<<<"r","e","q","u","i","r","e","d">>, FALSE>>},
     {<<<<"r","e","p","e","a","t">>, TRUE>>}, {<<<<"r","e","p","e","a","t">>, TRUE>>, <<<<"r","e","q","u","i","r","e","d">>, TRUE>>}}

\* new(NamedParameter): the zero value of the fields looked at.
NewNamedParameter == [Required |-> FALSE, Repeat |-> Nil]

\* The engine decoding a mapping into a NamedParameter: a field is set when
\* its key, the field's name in lower case, is there, and else left alone.
\* The key the parameter is declared under is not looked at.
DecodeNamedParameter(context, attributes, out) ==
    [Required |-> IF \E a \in attributes : a[1] = <<"r","e","q","u","i","r","e","d">>
                  THEN (CHOOSE a \in attributes : a[1] = <<"r","e","q","u","i","r","e","d">>)[2]
                  ELSE out.Required,
     Repeat |-> IF \E a \in attributes : a[1] = <<"r","e","p","e","a","t">>
                THEN [kind |-> "*bool", value |-> (CHOOSE a \in attributes : a[1] = <<"r","e","p","e","a","t">>)[2]]
                ELSE out.Repeat]

\* The engine decodes the parameter's mapping.
DecodeParameter ==
    /\ npc = "decode"
    /\ namedParameter' = DecodeNamedParameter(parameterContext, parameterNode, namedParameter)
    /\ npc' = "decoded"
    /\ UNCHANGED <<node, receiver, dc, dcCall, parameterContext, parameterNode>>
    /\ UNCHANGED <<parseVars, translatorVars, callVars>>

\* ------------------------------------------------------ two ParseFile calls

\* The package-level tables, as the var declarations initialise them.
Tables ==
    [yamlTypeToName |-> yamlTypeToName, ramlTypeNames |-> ramlTypeNames,
     ramlTypes |-> ramlTypes]

\* The files two calls share: a document with a directive, one of another
\* version, one with a flow sequence for its title, one whose included file
\* is missing, and the included file.
SharedFiles ==
    (<<"m">> :> <<"#","%","R","A","M","L"," ","0",".","8","\n","k",":"," ","!","i","n","c","l","u","d","e"," ","f","\n">>) @@ (<<"n">> :> <<"#","%","R","A","M","L"," ","0",".","9","\n">>)
    @@ (<<"t">> :> <<"#","%","R","A","M","L"," ","0",".","8","\n","t","i","t","l","e",":"," ","[","a","]","\n">>) @@ (<<"i">> :> <<"#","%","R","A","M","L"," ","0",".","8","\n","a",":"," ","b","\n","k",":"," ","!","i","n","c","l","u","d","e"," ","g","\n">>)
    @@ (<<"f">> :> <<"b","\n","c","\n">>)
CallPaths == {<<"m">>, <<"n">>, <<"t">>, <<"i">>, <<"x">>}

\* The locals of a ParseFile call that has not begun.
NewCall(filePath) ==
    [path |-> filePath, pc |-> "ParseFile", workingDirectory |-> <<>>,
     mainFileBytes |-> <<>>, mainFileBuffer |-> <<>>, ramlVersion |-> <<>>,
     preprocessedContents |-> <<>>, preprocessedContentsBytes |-> <<>>, err |-> Nil,
     ret |-> [model |-> Nil, err |-> Nil], log |-> <<>>, iteration |-> NoIteration]

\* No second call.
NoCall == [NewCall(<<>>) EXCEPT !.pc = "idle"]

\* A faulty buffer: one package-level buffer that every call writes to.
PackageLevelBuffer(saved, current) == current

\* preProcess's buffer is a local of the call: a call that goes on finds the
\* buffer it left, whatever the other call wrote meanwhile.
LocalBuffer(saved, current) == saved

\* The scheduler lets the other call run: the running call's locals are put
\* aside and the other call's locals are taken up. The file system and the
\* tables are shared. A call that has returned or panicked does not run again.
Switch ==
    /\ running \in {1, 2}
    /\ other.pc \notin {"done", "panic"}
    /\ other' =
         [path |-> path, pc |-> pc, workingDirectory |-> workingDirectory,
          mainFileBytes |-> mainFileBytes, mainFileBuffer |-> mainFileBuffer,
          ramlVersion |-> ramlVersion, preprocessedContents |-> preprocessedContents,
          preprocessedContentsBytes |-> preprocessedContentsBytes, err |-> err,
          ret |-> ret, log |-> log, iteration |-> iteration]
    /\ path' = other.path
    /\ pc' = other.pc
    /\ workingDirectory' = other.workingDirectory
    /\ mainFileBytes' = other.mainFileBytes
    /\ mainFileBuffer' = other.mainFileBuffer
    /\ ramlVersion' = other.ramlVersion
    /\ preprocessedContents' = LocalBuffer(other.preprocessedContents, preprocessedContents)
    /\ preprocessedContentsBytes' = other.preprocessedContentsBytes
    /\ err' = other.err
    /\ ret' = other.ret
    /\ log' = other.log
    /\ iteration' = other.iteration
    /\ running' = 3 - running
    /\ interleaved' = (interleaved \/ pc \notin {"ParseFile", "done", "panic"})
    /\ UNCHANGED <<fs, tables>>
    /\ UNCHANGED <<translatorVars, decoderVars>>

\* ------------------------------------------------------------ initial states

\* No ParseFile call.
ParseFileIdle ==
    /\ path = <<>>
    /\ fs = <<>>
    /\ pc = "idle"
    /\ workingDirectory = <<>>
    /\ mainFileBytes = <<>>
    /\ mainFileBuffer = <<>>
    /\ ramlVersion = <<>>
    /\ preprocessedContents = <<>>
    /\ preprocessedContentsBytes = <<>>
    /\ err = Nil
    /\ ret = [model |-> Nil, err |-> Nil]
    /\ log = <<>>
    /\ iteration = NoIteration

\* The translator is not called.
TranslatorIdle ==
    /\ ramlErrorValue = NewRamlError
    /\ yamlTypeError = [kind |-> "yaml.TypeError", Errors |-> <<>>]
    /\ rawFacts = <<>>
    /\ errorsBefore = <<>>
    /\ report = <<>>
    /\ tpc = "idle"

\* Nothing is decoded into a DefinitionChoice or a NamedParameter.
DecoderIdle ==
    /\ node = ScalarNode(0, <<>>)
    /\ receiver = [Name |-> <<>>, Parameters |-> Nil]
    /\ dc = [r \in Runs |-> receiver]
    /\ dcCall = [r \in Runs |-> [pc |-> "idle", err |-> Nil]]
    /\ parameterContext = "none"
    /\ parameterNode = {}
    /\ namedParameter = NewNamedParameter
    /\ npc = "idle"

\* One call only; the tables are as declared.
CallsIdle ==
    /\ other = NoCall
    /\ running = 0
    /\ interleaved = FALSE
    /\ tables = Tables

\* A call of ParseFile on one of the inputs.
Init ==
    /\ \E in \in Inputs : path = in.path /\ fs = in.fs
    /\ pc = "ParseFile"
    /\ workingDirectory = <<>>
    /\ mainFileBytes = <<>>
    /\ mainFileBuffer = <<>>
    /\ ramlVersion = <<>>
    /\ preprocessedContents = <<>>
    /\ preprocessedContentsBytes = <<>>
    /\ err = Nil
    /\ ret = [model |-> Nil, err |-> Nil]
    /\ log = <<>>
    /\ iteration = NoIteration
    /\ TranslatorIdle
    /\ DecoderIdle
    /\ CallsIdle

\* populateRAMLError is called with up to MaxErrors raw errors on a RamlError
\* that is empty or holds a message already.
TranslatorInit ==
    /\ ParseFileIdle
    /\ \E before \in ErrorsBefore :
       \E facts \in UNION {[1..k -> RawErrors] : k \in 0..MaxErrors} :
         /\ ramlErrorValue = [NewRamlError EXCEPT !.Errors = before]
         /\ yamlTypeError = [kind |-> "yaml.TypeError",
                             Errors |-> [i \in DOMAIN facts |-> facts[i].text]]
         /\ rawFacts = facts
         /\ errorsBefore = before
    /\ report = <<>>
    /\ tpc = "populateRAMLError"
    /\ DecoderIdle
    /\ CallsIdle

\* One node is decoded twice, each time into a copy of the same receiver, and
\* a named parameter is decoded under one of the keys.
DecoderInit ==
    /\ ParseFileIdle
    /\ TranslatorIdle
    /\ node \in ChoiceNodes
    /\ receiver \in Receivers
    /\ dc = [r \in Runs |-> receiver]
    /\ dcCall = [r \in Runs |-> [pc |-> "UnmarshalYAML", err |-> Nil]]
    /\ parameterContext \in ParameterContexts
    /\ parameterNode \in ParameterNodes
    /\ namedParameter = NewNamedParameter
    /\ npc = "decode"
    /\ CallsIdle

\* Two calls of ParseFile on the shared files; the first one runs.
ConcurrentInit ==
    /\ fs = SharedFiles
    /\ \E first \in CallPaths, second \in CallPaths :
         /\ path = first
         /\ other = NewCall(second)
    /\ pc = "ParseFile"
    /\ workingDirectory = <<>>
    /\ mainFileBytes = <<>>
    /\ mainFileBuffer = <<>>
    /\ ramlVersion = <<>>
    /\ preprocessedContents = <<>>
    /\ preprocessedContentsBytes = <<>>
    /\ err = Nil
    /\ ret = [model |-> Nil, err |-> Nil]
    /\ log = <<>>
    /\ iteration = NoIteration
    /\ running = 1
    /\ interleaved = FALSE
    /\ tables = Tables
    /\ TranslatorIdle
    /\ DecoderIdle

\* ------------------------------------------------------------ specifications

Next ==
    \/ ReadMainFile
    \/ VerifyVersion
    \/ PreProcessLine
    \/ PreProcessReturn
    \/ Decode

Spec == Init /\ [][Next]_vars

TranslatorNext ==
    \/ Populate
    \/ ErrorString

TranslatorSpec == TranslatorInit /\ [][TranslatorNext]_vars

DecoderNext ==
    \/ UnmarshalChoice
    \/ DecodeParameter

DecoderSpec == DecoderInit /\ [][DecoderNext]_vars

ConcurrentNext ==
    \/ ReadMainFile
    \/ VerifyVersion
    \/ PreProcessLine
    \/ PreProcessReturn
    \/ Decode
    \/ Switch

ConcurrentSpec == ConcurrentInit /\ [][ConcurrentNext]_vars

\* ------------------------------------------------------- the inclusion runs

\* The lines of a document that includes: a plain entry, a directive naming
\* the document itself, one naming the file f, an indented one naming a file
\* by an absolute path, the marker in a comment, the marker in a quoted value,
\* and two markers on one line.
IncludeLines ==
    {<<"a",":"," ","b">>, <<"k",":"," ","!","i","n","c","l","u","d","e"," ","m">>, <<"k",":"," ","!","i","n","c","l","u","d","e"," ","f">>, <<" "," ","j",":"," ","!","i","n","c","l","u","d","e"," ","/","f">>,
     <<"#"," ","!","i","n","c","l","u","d","e"," ","f">>, <<"k",":"," ","\"","!","i","n","c","l","u","d","e"," ","f","\"">>, <<"k",":"," ","!","i","n","c","l","u","d","e"," ","f"," ","!","i","n","c","l","u","d","e"," ","g">>}

\* The lines that follow the first line of such a document.
FollowingLines == {<<"a",":"," ","b">>, <<"k",":"," ","!","i","n","c","l","u","d","e"," ","m">>, <<"k",":"," ","!","i","n","c","l","u","d","e"," ","f">>}

\* The bodies of exactly n lines, each ended by a newline: any of the lines
\* first, then following lines; and the bodies of at most MaxBodyLines lines.
RECURSIVE IncludeBodiesOf(_)
IncludeBodiesOf(n) ==
    IF n = 0 THEN {<<>>}
    ELSE IF n = 1 THEN {l \o <<NL>> : l \in IncludeLines}
    ELSE {b \o l \o <<NL>> : b \in IncludeBodiesOf(n - 1), l \in FollowingLines}

IncludeBodies == UNION {IncludeBodiesOf(n) : n \in 0..MaxBodyLines}

\* The contents of the included file f: a plain line, a directive naming the
\* main document, and an indented directive naming the file g.
NestedContents == {<<"b","\n">>, <<"c",":"," ","!","i","n","c","l","u","d","e"," ","m","\n">>, <<"b","\n"," "," ","k",":"," ","!","i","n","c","l","u","d","e"," ","g","\n">>}

\* The file system: the main document m and the file f, in the current
\* directory and in the directory d; the file g in both; a file f in the
\* root directory; and a file whose name holds a space and the marker.
IncludeFileSystem(doc, included) ==
    (<<"m">> :> doc) @@ (<<"d","/","m">> :> doc) @@ (<<"f">> :> included) @@ (<<"d","/","f">> :> included)
    @@ (<<"g">> :> <<"y","\n">>) @@ (<<"d","/","g">> :> <<"y","\n">>) @@ (<<"/","f">> :> <<"z","\n">>)
    @@ (<<"f"," ","!","i","n","c","l","u","d","e"," ","g">> :> <<"w","\n">>)

\* The runs: every body behind the version line, read from the current
\* directory and from the directory d, with every content of f.
IncludeInputs ==
    {[path |-> p, fs |-> IncludeFileSystem(<<"#","%","R","A","M","L"," ","0",".","8","\n">> \o b, inc)] :
        p \in {MainPath, <<"d","/","m">>}, b \in IncludeBodies, inc \in NestedContents}

\* A call of ParseFile on one of these inputs.
IncludeInit ==
    /\ \E in \in IncludeInputs : path = in.path /\ fs = in.fs
    /\ pc = "ParseFile"
    /\ workingDirectory = <<>>
    /\ mainFileBytes = <<>>
    /\ mainFileBuffer = <<>>
    /\ ramlVersion = <<>>
    /\ preprocessedContents = <<>>
    /\ preprocessedContentsBytes = <<>>
    /\ err = Nil
    /\ ret = [model |-> Nil, err |-> Nil]
    /\ log = <<>>
    /\ iteration = NoIteration
    /\ TranslatorIdle
    /\ DecoderIdle
    /\ CallsIdle

IncludeNext ==
    \/ ReadMainFile
    \/ VerifyVersion
    \/ PreProcessLine
    \/ PreProcessReturn
    \/ Decode

\* preProcess, once called, runs on: nothing suspends the goroutine, so an
\* iteration of its loop, or its return, that can be taken is taken.
IncludeSpec ==
    IncludeInit /\ [][IncludeNext]_vars /\ WF_vars(PreProcessLine \/ PreProcessReturn)

\* ------------------------------------------------------------ observations

\* The stages ParseFile has entered, read off the log.
Preprocessed == \E i \in DOMAIN log : log[i].op = "preProcess"
Decoded == \E i \in DOMAIN log : log[i].op = "Unmarshal"

\* ParseFile has read the main file and has read its first line.
VersionVerified ==
    \/ pc \in {"preProcess", "Unmarshal", "panic"}
    \/ /\ pc = "done"
       /\ ret.err.kind \notin {"File name cannot be nil", "Could not read file"}

\* preProcess has returned a buffer.
PreProcessReturned == pc = "Unmarshal" \/ Decoded

\* The main file holds a newline, and its first line without the terminator
\* (a newline, or a carriage return and a newline).
HasNewline(text) == \E i \in DOMAIN text : text[i] = NL
FirstLine(text) ==
    LET ends == {i \in DOMAIN text : text[i] = NL}
        upto == IF ends = {} THEN Len(text)
                ELSE (CHOOSE i \in ends : \A j \in ends : i <= j) - 1
    IN  IF upto > 0 /\ text[upto] = CR THEN SubSeq(text, 1, upto - 1)
        ELSE SubSeq(text, 1, upto)

\* The text preProcess is given: the main file behind its first newline.
HostInput ==
    LET ends == {i \in DOMAIN mainFileBytes : mainFileBytes[i] = NL}
    IN  IF ends = {} THEN <<>>
        ELSE SubSeq(mainFileBytes, (CHOOSE i \in ends : \A j \in ends : i <= j) + 1,
                    Len(mainFileBytes))

\* The lines of a text, terminators removed: the pieces between newlines,
\* without the empty piece behind a final newline, each without a final
\* carriage return.
TextLines(text) ==
    LET pieces == stringsSplit(text, <<NL>>)
        kept == IF pieces[Len(pieces)] = <<>>
                THEN SubSeq(pieces, 1, Len(pieces) - 1) ELSE pieces
    IN  [i \in DOMAIN kept |->
            IF kept[i] # <<>> /\ kept[i][Len(kept[i])] = CR
            THEN SubSeq(kept[i], 1, Len(kept[i]) - 1) ELSE kept[i]]

\* The lines of a text that hold the inclusion marker.
DirectiveLines(text) == {i \in DOMAIN TextLines(text) : Contains(TextLines(text)[i], Marker)}

\* The column of the first marker of a line that holds one.
DirectiveColumn(line) ==
    CHOOSE c \in 0..Len(line) :
        /\ SubSeq(line, c + 1, c + Len(Marker)) = Marker
        /\ \A d \in 0..(c - 1) : SubSeq(line, d + 1, d + Len(Marker)) # Marker

\* The number of newlines of a text.
Newlines(text) == Cardinality({i \in DOMAIN text : text[i] = NL})

\* The file reads of the log, as positions.
FileReads == {i \in DOMAIN log : log[i].op = "ReadFile"}

\* ------------------------------------------------------------------ claims

C2_FirstLineEqualsMarker ==
    VersionVerified =>
        IF FirstLine(mainFileBytes) = RamlMarker
        THEN TRUE
        ELSE ret.err = ErrNotRAML /\ ~Preprocessed /\ ~Decoded

\* C2 amended: a document is accepted exactly when its first line is
\* newline-terminated and starts with the marker; otherwise ParseFile returns
\* a nil model and an error, the version-mismatch error when the file holds a
\* newline and the reading error when it holds none, and neither
\* preprocessing nor decoding happens.
C2_FirstLineStartsWithMarker ==
    VersionVerified =>
        IF HasNewline(mainFileBytes) /\ HasPrefix(FirstLine(mainFileBytes), RamlMarker)
        THEN Preprocessed
        ELSE /\ pc = "done"
             /\ ret.model = Nil
             /\ ret.err = IF HasNewline(mainFileBytes) THEN ErrNotRAML ELSE ErrProblemReading
             /\ ~Preprocessed
             /\ ~Decoded

\* C2 witness: a first line of the marker's length that differs from it in
\* its last byte has been rejected with the version-mismatch error.
C2_Witness ==
    /\ pc = "done"
    /\ ret.err = ErrNotRAML
    /\ Len(FirstLine(mainFileBytes)) = Len(RamlMarker)
    /\ ~Preprocessed

\* C3: whenever ParseFile returns a nil error, the model's RAMLVersion is the
\* marker.
C3_VersionFieldIsMarker ==
    (pc = "done" /\ ret.err = Nil) => ret.model.RAMLVersion = RamlMarker

\* The text with every line ending in exactly one newline: a carriage return
\* before a newline or at the very end is dropped, and an unterminated last
\* line gets a newline.
RECURSIVE LFTerminated(_)
LFTerminated(text) ==
    IF text = <<>> THEN <<>>
    ELSE IF text = <<CR>> THEN <<NL>>
    ELSE IF HasPrefix(text, <<CR, NL>>) THEN <<NL>> \o LFTerminated(SubSeq(text, 3, Len(text)))
    ELSE IF Len(text) = 1 /\ text[1] # NL THEN <<text[1], NL>>
    ELSE <<text[1]>> \o LFTerminated(Tail(text))

\* Every line of the text ends with a newline that no carriage return precedes.
LFOnly(text) ==
    text = <<>> \/ (text[Len(text)] = NL /\ ~Contains(text, <<CR, NL>>))

RECURSIVE IndentedLines(_, _)
IndentedLines(lines, c) ==
    IF lines = <<>> THEN <<>>
    ELSE [i \in 1..c |-> SP] \o Head(lines) \o <<NL>> \o IndentedLines(Tail(lines), c)

\* C5: a directive at column c of a host line, naming a file with the lines
\* L1..Ln (n >= 1), adds to the output the host line's text before the marker,
\* L1 and a newline, and then for each later line c spaces, the line and a
\* newline; the last line gets its newline also when the file has none there.
C5_SpliceLayout ==
    LET L == TextLines(iteration.included)
        c == DirectiveColumn(iteration.line)
    IN  (iteration.outcome = "spliced" /\ Len(L) >= 1) =>
            preprocessedContents =
                iteration.before \o SubSeq(iteration.line, 1, c) \o L[1] \o <<NL>>
                \o IndentedLines(Tail(L), c)

\* C5 witness: a file of two lines, the last one unterminated, has been
\* spliced in at a column greater than zero.
C5_Witness ==
    /\ iteration.outcome = "spliced"
    /\ Len(TextLines(iteration.included)) = 2
    /\ iteration.included[Len(iteration.included)] # NL
    /\ DirectiveColumn(iteration.line) > 0

\* C6: no host line is dropped or merged. A line without a directive is added
\* verbatim with its newline; a directive line starts on a line of its own
\* with its prefix and what it adds ends with a newline, so that the next host
\* line starts a new output line; and the buffer returned has at least as
\* many lines as the input.
C6_NoLineDroppedOrMerged ==
    /\ iteration.outcome = "copied" =>
           preprocessedContents = iteration.before \o iteration.line \o <<NL>>
    /\ iteration.outcome = "spliced" =>
           /\ iteration.before = <<>> \/ iteration.before[Len(iteration.before)] = NL
           /\ HasPrefix(preprocessedContents,
                        iteration.before
                        \o SubSeq(iteration.line, 1, DirectiveColumn(iteration.line)))
           /\ preprocessedContents[Len(preprocessedContents)] = NL
    /\ PreProcessReturned =>
           Newlines(preprocessedContentsBytes) >= Len(TextLines(HostInput))

\* The path of a directive line: what follows the marker and a space.
ReferencedPath(line) ==
    SubSeq(line, DirectiveColumn(line) + Len(Marker) + 2, Len(line))

\* What has been scanned of the host input.
Scanned == SubSeq(HostInput, 1, Len(HostInput) - Len(mainFileBuffer))

\* C7: when the file of a directive cannot be read, ParseFile has returned: a
\* nil model and the preprocessing error around the inclusion error that names
\* the file of the directive; preProcess handed back no buffer, the engine was
\* not called, and no file was read for a directive behind the failing one.
C7_IncludeErrorAborts ==
    iteration.outcome = "IncludeError" =>
        /\ pc = "done"
        /\ ret.model = Nil
        /\ ret.err.kind = "Error preprocessing RAML file"
        /\ ret.err.cause.kind = "Error including file"
        /\ ret.err.cause.file = ReferencedPath(iteration.line)
        /\ ret.err.cause.cause.kind \in {"Could not read file", "File name cannot be nil"}
        /\ preprocessedContentsBytes = <<>>
        /\ ~Decoded
        /\ Cardinality(FileReads) <= 1 + Cardinality(DirectiveLines(Scanned))

\* C7 witness: a directive naming a file that does not exist has failed while
\* another directive was still waiting behind it.
C7_Witness ==
    /\ iteration.outcome = "IncludeError"
    /\ ret.err.cause.cause.kind = "Could not read file"
    /\ ret.err.cause.file # <<>>
    /\ Contains(mainFileBuffer, Marker)

\* C8: every host line that holds the marker ends in a splice or in an
\* inclusion error, never in a runtime fault.
C8_SpliceOrIncludeError ==
    /\ pc # "panic"
    /\ Contains(iteration.line, Marker) => iteration.outcome \in {"spliced", "IncludeError"}

\* C9: when the engine is called, and from then on, the files read are the
\* main file and one file for each directive line of the host document, and all
\* of them were read before the call.
C9_IncludesBeforeDecoding ==
    /\ pc = "Unmarshal" =>
           Cardinality(FileReads) = 1 + Cardinality(DirectiveLines(HostInput))
    /\ \A j \in DOMAIN log :
           log[j].op = "Unmarshal" =>
               /\ \A i \in FileReads : i < j
               /\ Cardinality(FileReads) = 1 + Cardinality(DirectiveLines(HostInput))

\* C9 witness: decoding has been done for a document with two directives.
C9_Witness ==
    /\ Decoded
    /\ Cardinality(DirectiveLines(HostInput)) = 2

\* C10: when the engine reports type errors, ParseFile's error is the
\* translator's report of them: a RamlError holding the converted message of
\* each raw error, in order.
C10_ErrorIsTranslatedReport ==
    (Decoded /\ err.kind = "yaml.TypeError") =>
        ret.err = populateRAMLError(NewRamlError, err)

\* ------------------------------------------- observations of the translator

\* The message populateRAMLError appended for the i-th raw error.
Translated(i) == ramlErrorValue.Errors[Len(errorsBefore) + i]

\* A raw error that has the engine's form `line <n>: cannot unmarshal <kind>
\* [<value>] into <type>`.
EngineForm(f) == f.form \in {"node", "scalar"}

\* The value of a scalar as the engine shows it: between backquotes.
Shown(f) == Tail(ValueSnippet(f.value))

\* `line <n>: <destination> cannot be of type <observed>, must be <expected>`
Composed(n, destination, observed, expected) ==
    <<"l","i","n","e"," ">> \o Itoa(n) \o <<":"," ">> \o destination \o <<" ","c","a","n","n","o","t"," ","b","e"," ","o","f"," ","t","y","p","e"," ">> \o observed
    \o <<","," ","m","u","s","t"," ","b","e"," ">> \o expected

\* The observed label of a raw error: the kind's name, to which the value may
\* be added for a scalar.
ObservedLabels(f) ==
    {LookupOr(yamlTypeToName, f.tag)}
    \cup (IF f.form = "scalar"
          THEN {LookupOr(yamlTypeToName, f.tag) \o <<" ","(","g","o","t"," ">> \o Shown(f) \o <<")">>}
          ELSE {})

\* ------------------------------------------------------------------ C11..C14

\* C11: when populateRAMLError has returned, RamlError.Errors is what it was
\* before followed by one message for each raw error, the i-th being
\* convertYAMLError's of the i-th raw error; and the string Error() returns is
\* the header line, then these messages in the same order, one on each line
\* behind two spaces, and a final newline.
C11_CountAndOrderPreserved ==
    tpc \in {"returned", "reported"} =>
        LET errors == ramlErrorValue.Errors
            k == Len(yamlTypeError.Errors)
            lines == stringsSplit(report, <<NL>>)
        IN  /\ Len(errors) = Len(errorsBefore) + k
            /\ SubSeq(errors, 1, Len(errorsBefore)) = errorsBefore
            /\ \A i \in 1..k : Translated(i) = convertYAMLError(yamlTypeError.Errors[i]).msg
            /\ (tpc = "reported" /\ errors # <<>>) =>
                   /\ Len(lines) = Len(errors) + 2
                   /\ lines[1] = <<"E","r","r","o","r"," ","p","a","r","s","i","n","g"," ","R","A","M","L",":">>
                   /\ \A i \in DOMAIN errors : lines[i + 1] = <<SP, SP>> \o errors[i]
                   /\ lines[Len(lines)] = <<>>

\* C11 witness: two different raw errors were translated into a RamlError that
\* held a message, and the report was made.
C11_Witness ==
    /\ tpc = "reported"
    /\ errorsBefore # <<>>
    /\ Len(yamlTypeError.Errors) = 2
    /\ yamlTypeError.Errors[1] # yamlTypeError.Errors[2]
    /\ Translated(1) # Translated(2)

\* C12: for every raw error of the engine's form whose kind and type are in
\* the tables, the message is `line <n>: <destination label> cannot be of type
\* <observed label>, must be <expected category>` with the raw error's line
\* number, the kind's name, and the name and the category of the declared
\* type.
C12_MessageFromTables ==
    tpc = "returned" =>
        \A i \in DOMAIN rawFacts :
            LET f == rawFacts[i]
            IN  (/\ EngineForm(f)
                 /\ f.tag \in DOMAIN yamlTypeToName
                 /\ f.target \in DOMAIN ramlTypeNames
                 /\ f.target \in DOMAIN ramlTypes) =>
                    \E observed \in ObservedLabels(f) :
                        Translated(i) = Composed(f.n, ramlTypeNames[f.target], observed,
                                                 ramlTypes[f.target])

\* C13: for every text value where a raml.HTTPCode is declared, the report
\* has the line `line <n>: HTTP code cannot be of type string (got <value>),
\* must be integer`, the value as the engine shows it.
C13_TextForStatusCode ==
    tpc = "reported" =>
        \A i \in DOMAIN rawFacts :
            LET f == rawFacts[i]
                lines == stringsSplit(report, <<NL>>)
            IN  (f.form = "scalar" /\ f.tag = <<"!","!","s","t","r">> /\ f.target = <<"r","a","m","l",".","H","T","T","P","C","o","d","e">>) =>
                    \E j \in DOMAIN lines :
                        lines[j] = <<SP, SP>>
                                   \o Composed(f.n, <<"H","T","T","P"," ","c","o","d","e">>,
                                               <<"s","t","r","i","n","g"," ","(","g","o","t"," ">> \o Shown(f) \o <<")">>, <<"i","n","t","e","g","e","r">>)

\* C14: a raw error of the engine's form never makes the translator fail, and
\* when its kind is not in the kind-name table the message shows the kind as
\* it is, and when its type is not in the type-name table the message shows
\* the type as it is.
C14_RawTokenFallback ==
    /\ tpc = "panic" => ~EngineForm(rawFacts[FirstPanic(yamlTypeError.Errors)])
    /\ tpc = "returned" =>
        \A i \in DOMAIN rawFacts :
            LET f == rawFacts[i]
            IN  EngineForm(f) =>
                    /\ f.tag \notin DOMAIN yamlTypeToName =>
                           \E observed \in ObservedLabels(f) :
                               Contains(Translated(i),
                                        <<" ","c","a","n","n","o","t"," ","b","e"," ","o","f"," ","t","y","p","e"," ">> \o observed \o <<","," ","m","u","s","t"," ","b","e"," ">>)
                    /\ f.target \notin DOMAIN ramlTypeNames =>
                           HasPrefix(Translated(i),
                                     <<"l","i","n","e"," ">> \o Itoa(f.n) \o <<":"," ">> \o f.target
                                     \o <<" ","c","a","n","n","o","t"," ","b","e"," ","o","f"," ","t","y","p","e"," ">>)

\* ------------------------------------------------------------------ C15..C17

\* A mapping with one key whose value is a mapping of scalars.
SingleKeyMapping(n) ==
    /\ n.kind = "mapping"
    /\ Cardinality(n.entries) = 1
    /\ \A e \in n.entries :
           e[2].kind = "mapping" /\ \A p \in e[2].entries : p[2].kind = "scalar"

\* C15: UnmarshalYAML on a scalar gives its value as the name and no
\* parameters, whatever the receiver held; on a mapping with one key it gives
\* the key as the name and the mapping under it as the parameters.
C15_ScalarOrSingleKeyMapping ==
    \A r \in Runs :
        dcCall[r].pc = "returned" =>
            /\ node.kind = "scalar" =>
                   /\ dcCall[r].err = Nil
                   /\ dc[r] = [Name |-> node.value, Parameters |-> Nil]
            /\ SingleKeyMapping(node) =>
                   /\ dcCall[r].err = Nil
                   /\ \A e \in node.entries :
                          dc[r] = [Name |-> e[1],
                                   Parameters |-> Map({<<p[1], p[2].value>> : p \in e[2].entries})]

\* C15 witness: a scalar was decoded into a receiver that held parameters.
C15_Witness ==
    /\ dcCall[1].pc = "returned"
    /\ node.kind = "scalar"
    /\ receiver.Parameters # Nil
    /\ dc[1].Name = node.value

\* C16: two decodings of the same node into the same receiver give the same
\* DefinitionChoice and the same error.
C16_SameResultOnEveryRun ==
    (\A r \in Runs : dcCall[r].pc = "returned") =>
        \A r, s \in Runs : dc[r] = dc[s] /\ dcCall[r].err = dcCall[s].err

\* C17: a mapping with no key or with two or more keys is refused with an
\* error, and the DefinitionChoice is left as it was.
C17_ExactlyOneKey ==
    \A r \in Runs :
        (dcCall[r].pc = "returned" /\ node.kind = "mapping" /\ Cardinality(node.entries) # 1) =>
            dcCall[r].err # Nil /\ dc[r] = receiver

\* ----------------------------------------------------------------------- C18

\* C18: for a path whose file-name part is empty, the empty path or one that
\* ends in a separator, ParseFile's first step returns the error that the file
\* name cannot be nil, with no model, and no file has been read.
C18_EmptyFileNameRefused ==
    (pc # "ParseFile" /\ (path = <<>> \/ path[Len(path)] = Separator)) =>
        /\ pc = "done"
        /\ ret.model = Nil
        /\ ret.err # Nil
        /\ ret.err.kind = "File name cannot be nil"
        /\ FileReads = {}

\* C18 witness: ParseFile has returned for a path that ends in a separator.
C18_Witness ==
    /\ pc = "done"
    /\ path # <<>>
    /\ path[Len(path)] = Separator
    /\ ret.err # Nil

\* ----------------------------------------------------------------------- C19

\* C19: a parameter declared without `required` decodes with Required true
\* under uriParameters and with Required false under any other key.
C19_RequiredDefaultsByContext ==
    (npc = "decoded" /\ ~\E a \in parameterNode : a[1] = <<"r","e","q","u","i","r","e","d">>) =>
        namedParameter.Required = (parameterContext = "uriParameters")

\* ----------------------------------------------------------------------- C20

\* preProcess run from its first line to its return, as one function of the
\* text, the directory and the files.
RECURSIVE preProcessAlone(_, _, _, _)
preProcessAlone(buffer, directory, files, written) ==
    IF ~Scan(buffer) THEN [bytes |-> written, err |-> Nil]
    ELSE LET s == ScanLines(buffer)
             line == s.token
             idx == Index(line, Marker)
             r == readFileContents(files, directory, IncludedFile(line, idx))
         IN  IF idx = -1
             THEN preProcessAlone(Advance(buffer, s.advance), directory, files,
                                  written \o line \o <<NL>>)
             ELSE IF r.err # Nil
             THEN [bytes |-> <<>>, err |-> IncludeFailure(IncludedFile(line, idx), r.err)]
             ELSE preProcessAlone(Advance(buffer, s.advance), directory, files,
                                  written \o Slice(line, 0, idx)
                                  \o WriteIncluded(ScanAll(r.bytes), <<>>, idx))

\* What ParseFile returns for a path and the files when the call is the only
\* one there is.
ParseFileAlone(filePath, files) ==
    LET sp == Split(filePath)
        main == readFileContents(files, sp.dir, sp.file)
        first == ReadString(main.bytes, NL)
        version == VersionOf(first.str)
        expanded == preProcessAlone(first.rest, sp.dir, files, <<>>)
        decoded == Unmarshal(expanded.bytes, [NewAPIDefinition EXCEPT !.RAMLVersion = version])
    IN  IF main.err # Nil THEN ReturnError(main.err)
        ELSE IF first.eof THEN ReturnError(ErrProblemReading)
        ELSE IF ~VersionAccepted(version) THEN ReturnError(ErrNotRAML)
        ELSE IF expanded.err # Nil THEN ReturnError(ErrPreprocessing(expanded.err))
        ELSE IF decoded.err # Nil THEN ReturnUnmarshalError(decoded.model, decoded.err)
        ELSE ReturnModel(decoded.model)

RefusedLines ==
    {i \in DOMAIN TextLines(mainFileBytes) :
        SubSeq(TextLines(mainFileBytes)[i], 1, Len(<<"t","i","t","l","e",":"," ","[">>)) = <<"t","i","t","l","e",":"," ","[">>}

\* C21: when ParseFile returns the engine's type errors, each names the line
\* of the main file where the refused node is, and each such line is named.
C21_LineOfTheSourceFile ==
    (/\ pc = "done"
     /\ ret.err # Nil
     /\ ret.err.kind = "Problems parsing RAML"
     /\ ret.err.cause.kind = "yaml.TypeError") =>
        {ret.err.cause.Errors[i] : i \in DOMAIN ret.err.cause.Errors}
            = {<<"l","i","n","e"," ">> \o Itoa(n) \o <<":"," ","c","a","n","n","o","t"," ","u","n","m","a","r","s","h","a","l"," ","!","!","s","e","q"," ","i","n","t","o"," ","s","t","r","i","n","g">> : n \in RefusedLines}

\* ----------------------------------------------------------------------- C22

\* What the last iteration of the scanning loop added to the output.
Written ==
    SubSeq(preprocessedContents, Len(iteration.before) + 1, Len(preprocessedContents))

\* The directive lines of the host document scanned so far.
HostDirectives ==
    {TextLines(Scanned)[i] : i \in DirectiveLines(Scanned)}

\* C22: inclusion is one pass over the host document. A line of an included
\* file that holds the marker is written out as text, whole, behind the host
\* line's prefix when it is the first line and behind the indentation
\* otherwise; and every file read after the main file is the file of a
\* directive line of the host document, one read for each such line.
C22_IncludedDirectiveIsText ==
    /\ iteration.outcome = "spliced" =>
           LET L == TextLines(iteration.included)
               out == TextLines(Written)
               c == DirectiveColumn(iteration.line)
           IN  \A i \in DOMAIN L :
                   Contains(L[i], Marker) =>
                       /\ i \in DOMAIN out
                       /\ out[i] = (IF i = 1 THEN SubSeq(iteration.line, 1, c)
                                    ELSE Repeat(SP, c)) \o L[i]
    /\ Preprocessed =>
           /\ Cardinality(FileReads) = 1 + Cardinality(DirectiveLines(Scanned))
           /\ \A r \in FileReads :
                  r > 1 => \E l \in HostDirectives :
                               log[r].path = Join(workingDirectory, ReferencedPath(l))

\* C22 witness: ParseFile has returned a model for a document whose one
\* directive names f, and f holds a directive naming g: the directive is in
\* the output, and g exists and was not read.
C22_Witness ==
    /\ pc = "done"
    /\ ret.err = Nil
    /\ path = MainPath
    /\ HostInput = <<"k",":"," ","!","i","n","c","l","u","d","e"," ","f","\n">>
    /\ Contains(iteration.included, <<"!","i","n","c","l","u","d","e"," ","g">>)
    /\ Contains(preprocessedContentsBytes, <<" "," "," "," "," ","k",":"," ","!","i","n","c","l","u","d","e"," ","g","\n">>)
    /\ <<"g">> \in DOMAIN fs
    /\ \A r \in FileReads : log[r].path # <<"g">>

\* ----------------------------------------------------------------------- C23

\* The path of the last file read.
LastRead == log[CHOOSE r \in FileReads : \A q \in FileReads : q <= r].path

\* C23: the file read for a directive is the one its text names: a relative
\* path is taken from the directory of the host document, an absolute path is
\* read where it says.
C23_PathOfTheDirective ==
    iteration.outcome \in {"spliced", "IncludeError"} =>
        LET named == ReferencedPath(iteration.line)
        IN  LastRead = IF HasPrefix(named, <<Separator>>) THEN named
                       ELSE workingDirectory \o named

\* ----------------------------------------------------------------------- C24

\* C24: for a sequence, UnmarshalYAML returns an error whose translation is
\* `line <n>: definition choice cannot be of type sequence, must be string or
\* mapping`.
C24_ChoiceIsTheTarget ==
    \A r \in Runs :
        (dcCall[r].pc = "returned" /\ node.kind = "sequence") =>
            /\ dcCall[r].err # Nil
            /\ \E i \in DOMAIN dcCall[r].err.Errors :
                   convertYAMLError(dcCall[r].err.Errors[i]).msg
                       = Composed(node.line, <<"d","e","f","i","n","i","t","i","o","n"," ","c","h","o","i","c","e">>, <<"s","e","q","u","e","n","c","e">>,
                                  <<"s","t","r","i","n","g"," ","o","r"," ","m","a","p","p","i","n","g">>)

\* ----------------------------------------------------------------------- C25

\* C25: no text makes convertYAMLError index a token or slice the line number
\* out of range: populateRAMLError never ends in a panic.
C25_ConvertIsTotal == tpc # "panic"

\* ----------------------------------------------------------------------- C26

\* One text is what is left of another after a non-empty start of it.
ProperSuffix(s, t) ==
    Len(s) < Len(t) /\ s = SubSeq(t, Len(t) - Len(s) + 1, Len(t))

\* An iteration of the scanning loop that stays in the loop: the scanner has
\* moved on in the host document, into which nothing was put back, and one
\* file was read when the line scanned holds the marker, none otherwise.
LoopStep ==
    (pc = "preProcess" /\ pc' = "preProcess") =>
        /\ ProperSuffix(mainFileBuffer', mainFileBuffer)
        /\ Cardinality(FileReads') = Cardinality(FileReads) +
               (IF Contains(TextLines(mainFileBuffer)[1], Marker) THEN 1 ELSE 0)

\* C26: preProcess terminates: every iteration shortens what is left of the
\* host document, so preProcess is left; when it has returned, the files read
\* are the main file and one file for each directive line of the host
\* document, also when a file includes itself or two files include each other.
C26_PreProcessTerminates ==
    /\ [][LoopStep]_vars
    /\ [](PreProcessReturned =>
              Cardinality(FileReads) = 1 + Cardinality(DirectiveLines(HostInput)))
    /\ (pc = "preProcess") ~> (pc # "preProcess")

\* C26 witness: ParseFile has returned for a document that includes itself
\* and then f, which includes the document: three files were read.
C26_Witness ==
    /\ pc = "done"
    /\ PreProcessReturned
    /\ path = MainPath
    /\ HostInput = <<"k",":"," ","!","i","n","c","l","u","d","e"," ","m","\n","k",":"," ","!","i","n","c","l","u","d","e"," ","f","\n">>
    /\ fs[<<"f">>] = <<"c",":"," ","!","i","n","c","l","u","d","e"," ","m","\n">>
    /\ Cardinality(FileReads) = 3

\* ----------------------------------------------------------------------- C27

\* C27: a line is a directive exactly when it holds the marker, wherever it
\* is. The first marker counts: the text before it is kept, the path is all
\* that follows it and one more byte, up to the end of the line, and what is
\* written behind the kept text is the included file's lines and nothing of
\* the host line.
C27_TextualDirective ==
    /\ iteration.outcome = "copied" => ~Contains(iteration.line, Marker)
    /\ iteration.outcome \in {"spliced", "IncludeError"} =>
           /\ Contains(iteration.line, Marker)
           /\ iteration.idx = DirectiveColumn(iteration.line)
           /\ log[CHOOSE r \in FileReads : \A q \in FileReads : q <= r].path
                  = Join(workingDirectory, ReferencedPath(iteration.line))
    /\ iteration.outcome = "IncludeError" =>
           ret.err.cause.file = ReferencedPath(iteration.line)
    /\ iteration.outcome = "spliced" =>
           LET L == TextLines(iteration.included)
               c == DirectiveColumn(iteration.line)
           IN  preprocessedContents =
                   iteration.before \o SubSeq(iteration.line, 1, c)
                   \o (IF L = <<>> THEN <<>>
                       ELSE L[1] \o <<NL>> \o IndentedLines(Tail(L), c))

\* C27 witness: a line with two markers has been handled: the file named by
\* all the text behind the first one was spliced in.
C27_Witness ==
    /\ iteration.outcome = "spliced"
    /\ iteration.line = <<"k",":"," ","!","i","n","c","l","u","d","e"," ","f"," ","!","i","n","c","l","u","d","e"," ","g">>
    /\ iteration.included = <<"w","\n">>
    /\ preprocessedContents = iteration.before \o <<"k",":"," ","w","\n">>

\* ----------------------------------------------------------------------- C28

\* C28: for a main file without a newline, the empty file and the file that
\* is the marker and nothing else among them, ParseFile returns the error of
\* reading the first line and no model; no version has been taken from the
\* line and preProcess has not been entered.
C28_NoNewlineIsAReadProblem ==
    (VersionVerified /\ ~HasNewline(mainFileBytes)) =>
        /\ pc = "done"
        /\ ret.model = Nil
        /\ ret.err # Nil
        /\ ret.err.kind = "Problem reading RAML file"
        /\ ramlVersion = <<>>
        /\ ~Preprocessed

\* C28 witness: ParseFile has returned for a main file that is the marker
\* without a newline.
C28_Witness ==
    /\ pc = "done"
    /\ mainFileBytes = <<"#","%","R","A","M","L"," ","0",".","8">>
    /\ ret.err # Nil

\* ----------------------------------------------------------------------- C29

\* s ends with t.
EndsWith(s, t) == Len(s) >= Len(t) /\ SubSeq(s, Len(s) - Len(t) + 1, Len(s)) = t

\* The category of a token: its entry in the type-category table, or nothing.
CategoryOf(token) == IF token \in DOMAIN ramlTypes THEN ramlTypes[token] ELSE <<>>

====
